---- MODULE Spec2Model ----
(***************************************************************************)
(* BIDSonym: the run controller deeid() of bidsonym/deeid.py, the file     *)
(* relocation and metadata redaction of bidsonym/utils.py and the external *)
(* tool adapters of bidsonym/brainextraction.py, defacing_algorithms.py    *)
(* and reports.py, over an abstract file system.                           *)
(*                                                                         *)
(* A path is a record [root, dir, base]; a file system is a function from  *)
(* the paths that exist to their contents.  An image's content records the *)
(* image it was made from and how many defacing passes it went through     *)
(* (0 = the original bytes).  Every external call (a tool, the building of *)
(* a dataset index) either succeeds or raises; a step that raises writes    *)
(* nothing.                                                                *)
(*                                                                         *)
(* commands.main parses the command line and calls deeid.deeid; the        *)
(* process then exits with the status the interpreter gives it.            *)
(* run_deeid.py is the earlier variant of the controller with the same     *)
(* validation; it imports create_graphics from reports.py, which does not  *)
(* define it, so the module cannot be loaded and is not modelled.          *)
(*                                                                         *)
(* utils.deface_t2w, the voxel arithmetic of the T2w defacing, is a         *)
(* function of two arrays; it is followed call by call in SpecDefaceT2w,   *)
(* with the pipeline at rest.                                              *)
(*                                                                         *)
(* The dataset index is pybids, outside the repository: layout.get is      *)
(* taken to return the files of the subject that the query names, in path  *)
(* order, and build_path to be one-to-one on the entities of the dataset.  *)
(***************************************************************************)
EXTENDS Integers, Sequences, FiniteSets, TLC

VARIABLES
    pc,                  \* position of main() and deeid(): idle, parse, validate, ..., done, failed
    args,                \* the keyword arguments of this call of deeid()
    fs,                  \* the file system: path -> content, for the paths that exist
    layout,              \* the paths indexed by BIDSLayout(bids_dir) at deeid.py:65
    subjects_to_analyze, \* deeid.py:34, 79, 81
    si,                  \* position of "for subject_label in subjects_to_analyze"
    list_t1w,            \* deeid.py:92
    ti,                  \* position of "for t1w in list_t1w"
    brainmask_t1,        \* local of deeid(): None while unbound
    defaced_t1,          \* local of deeid(): None while unbound
    brainmask_t2,        \* local of deeid(): None while unbound
    err,                 \* the exception that ended the run, None while there is none
    exit_status,         \* exit status of the process, -1 while it has not exited
    dt2,                 \* a call of utils.deface_t2w on voxel arrays, checked on its own
    run,                 \* number of calls of deeid() started so far
    fs0,                 \* history: the file system when this call started
    first,               \* history: quarantine path -> the content first moved there
    processed,           \* history: the subject labels whose loop body was entered
    trace                \* history: the file moves and tool calls of this call

vars == << pc, args, fs, layout, subjects_to_analyze, si, list_t1w, ti,
           brainmask_t1, defaced_t1, brainmask_t2, err, exit_status, dt2, run,
           fs0, first, processed, trace >>

\* an option that was not given: None for a string, the empty list for a list
\* (argparse's nargs="+" and nargs=1 never produce an empty list)
None == "None"
Absent == << >>

(* ---------------------------------------------------------------- bounds *)

\* longest --participant_label list tried
MaxLabels == 2
\* number of calls of deeid() on the same dataset in SpecRerun
MaxRuns == 2
\* number of volumes of the longest 4-D series given to deface_t2w
MaxSeries == 3

(* ------------------------------------------------------------ the dataset *)

\* sub-01/ses-1: T1w, T2w, T1w.json {InstitutionName, Other}
\* sub-02/ses-1: T1w,      T1w.json {Other}
\* sub-02/ses-2: T1w, T2w
SubjectOrder == << "01", "02" >>
SessionOrder == << "1", "2" >>
UnknownLabel == "99"

Labels == {SubjectOrder[i] : i \in 1..Len(SubjectOrder)} \cup {UnknownLabel}

BidsRoot == "bids_dir"
NodeidRoot == "bids_dir/sourcedata/bidsonym"

Entities(sub, ses, suffix, ext) ==
    [subject |-> sub, session |-> ses, suffix |-> suffix, extension |-> ext]

\* os.path.join(dirname, basename)
Join(root, dir, base) == [root |-> root, dir |-> dir, base |-> base]

\* layout.build_path(entities): sub-<subject>/ses-<session>/anat/
\*   sub-<subject>_ses-<session>_<suffix>.<extension> under the layout's root
BuildPath(root, e) ==
    Join(root, << e.subject, e.session >>,
         [sub |-> e.subject, ses |-> e.session, stem |-> << e.suffix >>, ext |-> e.extension])

\* file.entities of an indexed file
EntitiesOf(p) == Entities(p.base.sub, p.base.ses, p.base.stem[1], p.base.ext)

Image(sub, ses, suffix) ==
    [type |-> "image", of |-> << sub, ses, suffix >>, defaced |-> 0]

Sidecar(meta) == [type |-> "json", meta |-> meta]

InitFs ==
    (BuildPath(BidsRoot, Entities("01", "1", "T1w", "nii.gz")) :> Image("01", "1", "T1w"))
 @@ (BuildPath(BidsRoot, Entities("01", "1", "T2w", "nii.gz")) :> Image("01", "1", "T2w"))
 @@ (BuildPath(BidsRoot, Entities("01", "1", "T1w", "json"))
        :> Sidecar([InstitutionName |-> "X", Other |-> "Y"]))
 @@ (BuildPath(BidsRoot, Entities("02", "1", "T1w", "nii.gz")) :> Image("02", "1", "T1w"))
 @@ (BuildPath(BidsRoot, Entities("02", "1", "T1w", "json"))
        :> Sidecar([Other |-> "Y"]))
 @@ (BuildPath(BidsRoot, Entities("02", "2", "T1w", "nii.gz")) :> Image("02", "2", "T1w"))
 @@ (BuildPath(BidsRoot, Entities("02", "2", "T2w", "nii.gz")) :> Image("02", "2", "T2w"))

(* ------------------------------------------------------- file operations *)

Exists(f, p) == p \in DOMAIN f

WriteFile(f, p, c) == (p :> c) @@ f

RemoveFile(f, p) == [q \in (DOMAIN f) \ {p} |-> f[q]]

\* shutil.move -> os.rename: an existing destination file is replaced
MoveFile(f, source_path, destination_path) ==
    WriteFile(RemoveFile(f, source_path), destination_path, f[source_path])

\* the quarantine path copy_no_deid and del_meta_data build for a file
NodeidPath(p) == BuildPath(NodeidRoot, EntitiesOf(p))

\* mutant: the brain mask written next to the image in the dataset tree
BrainmaskPath_Canonical(source) ==
    [source EXCEPT !.root = BidsRoot,
                   !.base.stem = Append(source.base.stem, "brainmask"),
                   !.base.ext = "nii.gz"]

\* strip every extension of the path, append "_brainmask.nii.gz"
BrainmaskPath(source) ==
    [source EXCEPT !.base.stem = Append(source.base.stem, "brainmask"),
                   !.base.ext = "nii.gz"]

\* strip every extension, append "_space-native_defacemask-deepdefacer.nii.gz"
DeepdefacerMaskPath(in_file) ==
    [in_file EXCEPT !.base.stem = Append(in_file.base.stem, "space-native_defacemask-deepdefacer"),
                    !.base.ext = "nii.gz"]

\* os.path.splitext(image_path)[0] + ".png": x.nii.gz -> x.nii.png
PngPath(image_path) == [image_path EXCEPT !.base.ext = "nii.png"]

\* os.path.splitext(input)[0] + ".gif": x.nii.gz -> x.nii.gif
GifPath(input) == [input EXCEPT !.base.ext = "nii.gif"]

\* os.path.join(out_dir, os.path.basename(in_file)), out_dir = dirname(T1_file)
MridefacerOutPath(in_file, T1_file) == Join(T1_file.root, T1_file.dir, in_file.base)

\* what a defacing tool writes for an input image
Defaced(c) == [c EXCEPT !.defaced = c.defaced + 1]

Brainmask(c) == [type |-> "brainmask", from |-> c]

\* the mask BET writes with a fractional intensity threshold (in tenths)
BetMask(c, frac) == [type |-> "brainmask", from |-> c, frac |-> frac]

(* ------------------------------------------------------ the dataset index *)

\* BIDSLayout(bids_dir, derivatives=False): the images and sidecars under the
\* dataset root; sourcedata/ is not indexed
Index(f) ==
    {p \in DOMAIN f : p.root = BidsRoot /\ Len(p.base.stem) = 1
                      /\ p.base.ext \in {"nii.gz", "json"}}

SubjectHasFile(idx, s) == \E p \in idx : p.base.sub = s

\* layout.get(return_type="id", target="subject")
LayoutSubjectIds(idx) == SelectSeq(SubjectOrder, LAMBDA s : SubjectHasFile(idx, s))

\* layout.get_subjects()
LayoutSubjects(idx) == {s \in Labels : SubjectHasFile(idx, s)}

\* layout.get(subject=subject_label, extension="nii.gz", suffix="T1w"), by path
SessionsWith(idx, subject_label, suffix, ext) ==
    SelectSeq(SessionOrder,
              LAMBDA ses : BuildPath(BidsRoot, Entities(subject_label, ses, suffix, ext)) \in idx)

PathsOf(subject_label, sessions, suffix, ext) ==
    [i \in 1..Len(sessions) |->
        BuildPath(BidsRoot, Entities(subject_label, sessions[i], suffix, ext))]

LayoutGetT1w(idx, subject_label) ==
    PathsOf(subject_label, SessionsWith(idx, subject_label, "T1w", "nii.gz"), "T1w", "nii.gz")

\* T2_entities = t1w.entities.copy(); T2_entities["suffix"] = "T2w"; build_path
T2Path(t1w) == BuildPath(BidsRoot, [EntitiesOf(t1w) EXCEPT !.suffix = "T2w"])

(* --------------------------------------------------------- the arguments *)

Deids == {"pydeface", "mri_deface", "quickshear", "mridefacer", "deepdefacer"}

LabelLists == UNION {[1..n -> Labels] : n \in 0..MaxLabels}

\* the --bet_frac values tried: argparse keeps the string (no type= is given)
Fracs == {"0.5", "1.5", "0"}

\* float(frac) of brainextraction.py:81, in tenths
Float(frac) == IF frac = "0.5" THEN 5 ELSE IF frac = "1.5" THEN 15 ELSE 0

\* the choices= of commands.get_parser
AnalysisLevels == {"participant", "group"}

BrainextractionChoices == {"bet", "nobrainer"}

\* every command line commands.get_parser accepts (participant_label, del_meta
\* and bet_frac are lists; Absent is the option not given); a threshold other
\* than 0.5 is tried with bet only
AllArgs ==
    {a \in [analysis_level : AnalysisLevels,
            participant_label : LabelLists,
            deid : Deids \cup {None},
            deface_t2w : BOOLEAN,
            del_meta : {Absent, << "InstitutionName" >>},
            brainextraction : BrainextractionChoices \cup {None},
            bet_frac : {Absent} \cup {<< frac >> : frac \in Fracs},
            version : {FALSE}] :
        a.brainextraction # "bet" => a.bet_frac \in {Absent, << "0.5" >>}}

\* command lines with a --brainextraction value that is not among the choices
UnsupportedArgs ==
    {[a EXCEPT !.brainextraction = "fsl"] :
        a \in {b \in AllArgs : b.brainextraction = "nobrainer"}}

\* "bidsonym --version"
VersionArgs ==
    [analysis_level |-> None, participant_label |-> Absent, deid |-> None,
     deface_t2w |-> FALSE, del_meta |-> Absent, brainextraction |-> None,
     bet_frac |-> Absent, version |-> TRUE]

\* every command line tried
CommandLines == AllArgs \cup UnsupportedArgs \cup {VersionArgs}

\* the command lines tried when deeid() is called again on the same dataset
RerunArgs ==
    {a \in AllArgs : /\ a.deid = "pydeface"
                     /\ a.brainextraction = "nobrainer"
                     /\ a.bet_frac = Absent
                     /\ \/ a.analysis_level = "group" /\ a.participant_label = Absent
                        \/ a.analysis_level = "participant" /\ a.participant_label = << "01" >>}

(* ------------------------------------------------------------ exceptions *)

NoError == [type |-> "None", msg |-> "", labels |-> << >>]

Error(type, msg) == [type |-> type, msg |-> msg, labels |-> << >>]

Unbound == [unbound |-> TRUE]

IsBound(x) == "unbound" \notin DOMAIN x

(* ------------------------------------ utils.deface_t2w: the voxel arrays *)

\* An array is [shape, data]: shape is the tuple of its dimensions and data
\* maps every index tuple to a voxel value.  The three spatial axes are
\* flattened into one axis of two voxels; a series has a trailing axis.
Voxels == 1..2

SeriesLengths == {1, MaxSeries}

ImageValues == {0, 1, 2}

MaskValues == {-1, 0, 2}

Indices(shape) ==
    {idx \in [1..Len(shape) -> 1..(Cardinality(Voxels) + MaxSeries)] :
        \A k \in 1..Len(shape) : idx[k] <= shape[k]}

Array(shape, values) == {[shape |-> shape, data |-> d] : d \in [Indices(shape) -> values]}

NoArray == [shape |-> << >>, data |-> << >>]

\* the index of the array before squeeze() for an index of the squeezed one
RECURSIVE Unsqueeze(_, _)
Unsqueeze(idx, shape) ==
    IF shape = << >> THEN << >>
    ELSE IF Head(shape) = 1 THEN << 1 >> \o Unsqueeze(idx, Tail(shape))
    ELSE << Head(idx) >> \o Unsqueeze(Tail(idx), Tail(shape))

\* ndarray.squeeze(): the axes of length one are removed
Squeeze(a) ==
    LET shape == SelectSeq(a.shape, LAMBDA d : d # 1)
    IN [shape |-> shape,
        data |-> [idx \in Indices(shape) |-> a.data[Unsqueeze(idx, a.shape)]]]

\* numpy broadcasting: the shapes are aligned at their last axis, the shorter
\* one is padded with axes of length one
Pad(shape, r) ==
    [k \in 1..r |-> IF k <= r - Len(shape) THEN 1 ELSE shape[k - (r - Len(shape))]]

Rank(a, b) == IF Len(a.shape) > Len(b.shape) THEN Len(a.shape) ELSE Len(b.shape)

Broadcastable(a, b) ==
    LET r == Rank(a, b) IN
    \A k \in 1..r : \/ Pad(a.shape, r)[k] = Pad(b.shape, r)[k]
                     \/ Pad(a.shape, r)[k] = 1
                     \/ Pad(b.shape, r)[k] = 1

\* the element of array a that takes part in the element idx of a product
Proj(idx, shape) ==
    [k \in 1..Len(shape) |->
        IF shape[k] = 1 THEN 1 ELSE idx[k + Len(idx) - Len(shape)]]

\* a * b of two broadcastable arrays
Multiply(a, b) ==
    LET r == Rank(a, b)
        shape == [k \in 1..r |-> IF Pad(a.shape, r)[k] > Pad(b.shape, r)[k]
                                 THEN Pad(a.shape, r)[k] ELSE Pad(b.shape, r)[k]]
    IN [shape |-> shape,
        data |-> [idx \in Indices(shape) |->
                    a.data[Proj(idx, a.shape)] * b.data[Proj(idx, b.shape)]]]

\* np.stack([a] * n, axis=-1)
Stack(a, n) ==
    [shape |-> Append(a.shape, n),
     data |-> [idx \in Indices(Append(a.shape, n)) |-> a.data[SubSeq(idx, 1, Len(a.shape))]]]

\* mutant: the warped mask used as it is, not binarized
MathImgGreaterZero_Raw(img) == img

\* math_img('img > 0', img=warped_mask_img)
MathImgGreaterZero(img) ==
    [img EXCEPT !.data = [idx \in DOMAIN img.data |-> IF img.data[idx] > 0 THEN 1 ELSE 0]]

\* nibabel.load: the voxels of a file with its affine and header
Nifti(array, geometry) == [array |-> array, geometry |-> geometry]

\* the T2w images tried: a volume, and series of 1 and of MaxSeries volumes
T2wImages ==
    {Nifti(a, "t2w") : a \in Array(<< Cardinality(Voxels) >>, ImageValues)
                              \cup UNION {Array(<< Cardinality(Voxels), n >>, ImageValues) :
                                              n \in SeriesLengths}}

\* the masks tried: the defaced T1w image as FLIRT wrote it, a volume
WarpedMasks == {Nifti(a, "flirt") : a \in Array(<< Cardinality(Voxels) >>, MaskValues)}

NoNifti == Nifti(NoArray, "None")

\* the files image and warped_mask, the locals warped_mask_img and outdata,
\* the file written at outfile and the exception raised
Call(p, image, warped_mask, outdata, outfile, e) ==
    [pc |-> p, image |-> image, warped_mask |-> warped_mask, warped_mask_img |-> NoNifti,
     outdata |-> outdata, outfile |-> outfile, err |-> e]

\* no call of deface_t2w is looked at
NoCall == Call("none", NoNifti, NoNifti, NoArray, NoNifti, "None")

(* ------------------------------------------- commands.py: the command line *)

\* mutant: the parser without choices= for --brainextraction
ParserAccepts_AnyBrainextraction(a) ==
    a.analysis_level \in AnalysisLevels /\ a.deid \in Deids \cup {None}

\* parse_args of commands.py:94: every choices= of get_parser holds
ParserAccepts(a) ==
    /\ a.analysis_level \in AnalysisLevels
    /\ a.deid \in Deids \cup {None}
    /\ a.brainextraction \in BrainextractionChoices \cup {None}

\* mutant: every exception caught and the status left at 0
ExitStatus_AlwaysZero(p, e) == 0

\* the status the process ends with: 0 when main() returns or the version was
\* printed, 2 for an argparse error, 1 for an exception that leaves main()
ExitStatus(p, e) ==
    IF p \in {"done", "version"} THEN 0
    ELSE IF e.type = "SystemExit" THEN 2
    ELSE 1

(* ------------------------------------------- deeid(): the validation part *)

\* mutants: a check of the validation part left out
BetFracMissing_Unchecked(a) == FALSE

BrainextractionMissing_Unchecked(a) == FALSE

GroupWithParticipantLabel_Unchecked(a) == FALSE

BetFracMissing(a) == a.brainextraction = "bet" /\ a.bet_frac = Absent

BrainextractionMissing(a) == a.brainextraction = None

NoParticipantLabel(a) ==
    a.analysis_level = "participant" /\ a.participant_label = Absent

GroupWithParticipantLabel(a) ==
    a.analysis_level = "group" /\ a.participant_label # Absent

\* the checks of deeid.py:36-56, in their order
ValidationError(a) ==
    IF BetFracMissing(a) THEN Error("ValueError", "provide a Frac value")
    ELSE IF BrainextractionMissing(a) THEN Error("Exception", "brainextraction required")
    ELSE IF NoParticipantLabel(a) THEN Error("ValueError", "No participant label indicated")
    ELSE IF GroupWithParticipantLabel(a)
         THEN Error("ValueError", "Cannot set participant_label for group level analysis")
    ELSE NoError

\* missing_participants of deeid.py:69-72: the loop runs over the list it is given
MissingParticipants(participants, subjects) ==
    SelectSeq(participants, LAMBDA participant : participant \notin subjects)

(* ----------------------------------------------------------- the actions *)

Move(src, dst, replaced) == [ev |-> "move", src |-> src, dst |-> dst, replaced |-> replaced]

Tool(name, input, ok) == [ev |-> "tool", tool |-> name, input |-> input, ok |-> ok]

Warn(what) == [ev |-> "warn", what |-> what]

Raise(e) == pc' = "failed" /\ err' = e

\* the program not yet started, on the unprocessed dataset
RunIdle ==
    /\ pc = "idle"
    /\ args = CHOOSE a \in AllArgs : TRUE
    /\ fs = InitFs
    /\ layout = {}
    /\ subjects_to_analyze = << >>
    /\ si = 1
    /\ list_t1w = << >>
    /\ ti = 1
    /\ brainmask_t1 = Unbound
    /\ defaced_t1 = Unbound
    /\ brainmask_t2 = Unbound
    /\ err = NoError
    /\ exit_status = -1
    /\ run = 0
    /\ fs0 = InitFs
    /\ first = << >>
    /\ processed = << >>
    /\ trace = << >>

Init == RunIdle /\ dt2 = NoCall

\* the program is started with one of the given command lines (commands.main),
\* the first time or after the process before it has exited
StartRun(ArgSet, maxRuns) ==
    /\ pc = "idle" \/ exit_status # -1
    /\ run < maxRuns
    /\ \E a \in ArgSet : args' = a
    /\ pc' = "parse"
    /\ exit_status' = -1
    /\ run' = run + 1
    /\ fs0' = fs
    /\ layout' = {}
    /\ subjects_to_analyze' = << >>
    /\ si' = 1
    /\ list_t1w' = << >>
    /\ ti' = 1
    /\ brainmask_t1' = Unbound
    /\ defaced_t1' = Unbound
    /\ brainmask_t2' = Unbound
    /\ err' = NoError
    /\ processed' = << >>
    /\ trace' = << >>
    /\ UNCHANGED << fs, first, dt2 >>

\* commands.py:94: the version action prints and exits, a value outside the
\* choices is an argparse error, any other command line reaches deeid()
Parse ==
    /\ pc = "parse"
    /\ IF args.version THEN pc' = "version" /\ UNCHANGED err
       ELSE IF ~ParserAccepts(args) THEN Raise(Error("SystemExit", "invalid choice"))
       ELSE pc' = "validate" /\ UNCHANGED err
    /\ UNCHANGED << dt2, exit_status, args, fs, layout, subjects_to_analyze, si, list_t1w,
                    ti, brainmask_t1, defaced_t1, brainmask_t2, run, fs0, first,
                    processed, trace >>

\* the process ends: main() returned, or an exception or SystemExit left it
Exit ==
    /\ pc \in {"done", "failed", "version"}
    /\ exit_status = -1
    /\ exit_status' = ExitStatus(pc, err)
    /\ UNCHANGED << dt2, pc, args, fs, layout, subjects_to_analyze, si, list_t1w, ti,
                    brainmask_t1, defaced_t1, brainmask_t2, err, run, fs0, first,
                    processed, trace >>

\* deeid.py:33-56
Validate ==
    /\ pc = "validate"
    /\ LET e == ValidationError(args) IN
         IF e # NoError THEN Raise(e) ELSE pc' = "layout" /\ UNCHANGED err
    /\ UNCHANGED << dt2, exit_status, args, fs, layout, subjects_to_analyze, si, list_t1w, ti,
                    brainmask_t1, defaced_t1, brainmask_t2, run, fs0, first,
                    processed, trace >>

\* deeid.py:65-83: BIDSLayout raises, or the subjects are resolved
BuildLayout ==
    /\ pc = "layout"
    /\ \/ /\ Raise(Error("BIDSLayoutError", "bids_dir"))
          /\ UNCHANGED << layout, subjects_to_analyze >>
       \/ /\ layout' = Index(fs)
          /\ IF args.participant_label # Absent
             THEN LET missing_participants ==
                          MissingParticipants(subjects_to_analyze, LayoutSubjects(layout'))
                  IN IF Len(missing_participants) > 0
                     THEN /\ Raise([type |-> "ValueError",
                                    msg |-> "participant(s) not present in the BIDS dataset",
                                    labels |-> missing_participants])
                          /\ UNCHANGED subjects_to_analyze
                     ELSE /\ subjects_to_analyze' = args.participant_label
                          /\ pc' = "subject"
                          /\ UNCHANGED err
             ELSE /\ subjects_to_analyze' = LayoutSubjectIds(layout')
                  /\ pc' = "subject"
                  /\ UNCHANGED err
    /\ UNCHANGED << dt2, exit_status, args, fs, si, list_t1w, ti, brainmask_t1, defaced_t1,
                    brainmask_t2, run, fs0, first, processed, trace >>

(* ------------------------------- utils.py: relocation and redaction ---- *)

\* a file system with the histories that follow it
St(f, fi, tr) == [fs |-> f, first |-> fi, trace |-> tr]

\* move_file(source_path, destination_path), with the histories kept
Relocate(st, src, dst) ==
    St(MoveFile(st.fs, src, dst),
       IF dst \in DOMAIN st.first THEN st.first ELSE WriteFile(st.first, dst, st.fs[src]),
       Append(st.trace, Move(src, dst, Exists(st.fs, dst))))

Range(seq) == {seq[i] : i \in 1..Len(seq)}

\* mutant: a listed field is removed from the sidecar
RedactMeta_RemovesField(meta_data, fields_del) ==
    [field \in (DOMAIN meta_data) \ Range(fields_del) |-> meta_data[field]]

\* mutant: every sidecar counts as edited
Edited_Always(meta_data, fields_del) == TRUE

\* utils.py:152-155: every listed field that is present gets the sentinel
RedactMeta(meta_data, fields_del) ==
    [field \in DOMAIN meta_data |->
        IF field \in Range(fields_del) THEN "deleted_by_bidsonym" ELSE meta_data[field]]

Edited(meta_data, fields_del) == \E field \in Range(fields_del) : field \in DOMAIN meta_data

\* utils.py:147-162: one sidecar of the subject
RedactFile(st, file_path, fields_del) ==
    IF Edited(st.fs[file_path].meta, fields_del)
    THEN LET moved == Relocate(st, file_path, NodeidPath(file_path))
         IN St(WriteFile(moved.fs, file_path,
                         Sidecar(RedactMeta(st.fs[file_path].meta, fields_del))),
               moved.first, moved.trace)
    ELSE st

RECURSIVE RedactFiles(_, _, _)
RedactFiles(st, json_files, fields_del) ==
    IF json_files = << >> THEN st
    ELSE RedactFiles(RedactFile(st, Head(json_files), fields_del), Tail(json_files), fields_del)

\* layout.get(subject=subject_label, suffix='json') of utils.py:145, by path
LayoutGetJson(idx, subject_label) ==
    PathsOf(subject_label, SessionsWith(idx, subject_label, "T1w", "json"), "T1w", "json")

\* del_meta_data(bids_dir, subject_label, fields_del) on a freshly built index
DelMetaDataSt(st, subject_label, fields_del) ==
    RedactFiles(st, LayoutGetJson(Index(st.fs), subject_label), fields_del)

(* ------------------------------------ the external tools, as outcome sets *)

ExternalToolFailure(name) == Error("ExternalToolFailure", name)

Outcome(f, tr, e, out) == [fs |-> f, trace |-> tr, err |-> e, out |-> out]

\* run_brain_extraction_bet: the threshold is float(frac), whatever its value,
\* and bet.run() is called twice (brainextraction.py:81-83)
BrainExtractionBet(f, tr, infile, frac, outfile) ==
    LET written == WriteFile(f, outfile, BetMask(f[infile], Float(frac))) IN
    { Outcome(f, Append(tr, Tool("bet", infile, FALSE)), ExternalToolFailure("bet"), Unbound),
      Outcome(written, tr \o << Tool("bet", infile, TRUE), Tool("bet", infile, FALSE) >>,
              ExternalToolFailure("bet"), Unbound),
      Outcome(written, tr \o << Tool("bet", infile, TRUE), Tool("bet", infile, TRUE) >>,
              NoError, outfile) }

\* mutant: the extraction returns without having written the mask
BrainExtractionNb_NoMask(f, tr, infile, outfile) ==
    {Outcome(f, Append(tr, Tool("nobrainer", infile, TRUE)), NoError, outfile)}

\* run_brain_extraction_nb
BrainExtractionNb(f, tr, infile, outfile) ==
    { Outcome(f, Append(tr, Tool("nobrainer", infile, FALSE)),
              ExternalToolFailure("nobrainer"), Unbound),
      Outcome(WriteFile(f, outfile, Brainmask(f[infile])),
              Append(tr, Tool("nobrainer", infile, TRUE)), NoError, outfile) }

\* mutant: the brain extraction left out
CreateBrainmask_Skipped(f, tr, a, source) == {Outcome(f, tr, NoError, BrainmaskPath(source))}

\* deeid.py:101-114 and 149-161: the brain mask of a quarantined image
CreateBrainmask(f, tr, a, source) ==
    IF a.brainextraction = "bet"
    THEN IF a.bet_frac = Absent
         THEN {Outcome(f, tr, Error("TypeError", "bet_frac[0]"), Unbound)}
         ELSE BrainExtractionBet(f, tr, source, a.bet_frac[1], BrainmaskPath(source))
    ELSE IF a.brainextraction = "nobrainer"
         THEN BrainExtractionNb(f, tr, source, BrainmaskPath(source))
         ELSE {Outcome(f, tr, NoError, Unbound)}

\* mutant: the defacing tool writes over its input
DefaceOutPath_Source(deid, source, T1_file) == source

\* the path a defacing method writes to (deeid.py:117-127)
DefaceOutPath(deid, source, T1_file) ==
    IF deid = "mridefacer" THEN MridefacerOutPath(source, T1_file) ELSE T1_file

\* run_pydeface, run_mri_deface, run_quickshear, run_mridefacer, run_deepdefacer
RunDeface(f, tr, deid, source, T1_file) ==
    LET out == DefaceOutPath(deid, source, T1_file)
        defaced == WriteFile(f, out, Defaced(f[source]))
    IN { Outcome(f, Append(tr, Tool(deid, source, FALSE)), ExternalToolFailure(deid), Unbound),
         Outcome(IF deid = "deepdefacer"
                 THEN WriteFile(defaced, DeepdefacerMaskPath(source), [type |-> "defacemask"])
                 ELSE defaced,
                 Append(tr, Tool(deid, source, TRUE)), NoError, out) }

\* mutant: the defacing call left out, the path of its output kept
DefaceT1Outcomes_Skipped(f, tr, a, source, T1_file) == {Outcome(f, tr, NoError, T1_file)}

\* deeid.py:116-127: no branch is taken unless deid is one of the five methods
DefaceT1Outcomes(f, tr, a, source, T1_file) ==
    IF a.deid \in Deids THEN RunDeface(f, tr, a.deid, source, T1_file)
    ELSE {Outcome(f, tr, NoError, Unbound)}

\* run_t2w_deface(in_file, t1w_deface_mask, out_file): FLIRT, then deface_t2w
RunT2wDeface(f, tr, in_file, t1w_deface_mask, out_file) ==
    { Outcome(f, Append(tr, Tool("t2w_deface", in_file, FALSE)),
              ExternalToolFailure("t2w_deface"), Unbound) }
    \cup
    IF Exists(f, t1w_deface_mask) /\ Exists(f, in_file)
    THEN { Outcome(WriteFile(f, out_file, Defaced(f[in_file])),
                   Append(tr, Tool("t2w_deface", in_file, TRUE)), NoError, out_file) }
    ELSE {}

\* plot_overlay(brainmask, image_path) then nifti_to_gif(image_path)
Report(f, tr, brainmask, image_path) ==
    IF ~IsBound(brainmask) \/ ~IsBound(image_path)
    THEN {Outcome(f, tr, Error("UnboundLocalError", "referenced before assignment"), Unbound)}
    ELSE LET png == WriteFile(f, PngPath(image_path), [type |-> "png"]) IN
         { Outcome(f, Append(tr, Tool("plot_overlay", image_path, FALSE)),
                   ExternalToolFailure("plot_overlay"), Unbound),
           Outcome(png, tr \o << Tool("plot_overlay", image_path, TRUE),
                                 Tool("nifti_to_gif", image_path, FALSE) >>,
                   ExternalToolFailure("nifti_to_gif"), Unbound),
           Outcome(WriteFile(png, GifPath(image_path), [type |-> "gif"]),
                   tr \o << Tool("plot_overlay", image_path, TRUE),
                            Tool("nifti_to_gif", image_path, TRUE) >>,
                   NoError, image_path) }

(* ------------------------------------------ deeid(): the loop, by steps *)

subject_label == subjects_to_analyze[si]

T1_file == list_t1w[ti]

source_t1w == NodeidPath(T1_file)

T2_file == T2Path(T1_file)

source_t2w == NodeidPath(T2_file)

\* mutant: the failure of an external step is caught and the run goes on
Take_Swallows(o, next) ==
    /\ fs' = o.fs
    /\ trace' = o.trace
    /\ pc' = next
    /\ UNCHANGED err

\* takes the outcome o of an external step: raise, or go on at next
Take(o, next) ==
    /\ fs' = o.fs
    /\ trace' = o.trace
    /\ IF o.err # NoError THEN Raise(o.err) ELSE pc' = next /\ UNCHANGED err

\* deeid.py:85-88: the next subject, or the end of the run
NextSubject ==
    /\ pc = "subject"
    /\ IF si > Len(subjects_to_analyze)
       THEN pc' = "done" /\ UNCHANGED processed
       ELSE /\ processed' = Append(processed, subject_label)
            /\ pc' = IF args.del_meta # Absent THEN "del_meta" ELSE "list_t1w"
    /\ UNCHANGED << dt2, exit_status, args, fs, layout, subjects_to_analyze, si, list_t1w, ti,
                    brainmask_t1, defaced_t1, brainmask_t2, err, run, fs0, first,
                    trace >>

\* deeid.py:89: del_meta_data; building one of its two indexes may raise
DelMetaData ==
    /\ pc = "del_meta"
    /\ \/ /\ Raise(Error("BIDSLayoutError", "del_meta_data"))
          /\ UNCHANGED << fs, first, trace >>
       \/ /\ LET st == DelMetaDataSt(St(fs, first, trace), subject_label, args.del_meta)
             IN fs' = st.fs /\ first' = st.first /\ trace' = st.trace
          /\ pc' = "list_t1w"
          /\ UNCHANGED err
    /\ UNCHANGED << dt2, exit_status, args, layout, subjects_to_analyze, si, list_t1w, ti,
                    brainmask_t1, defaced_t1, brainmask_t2, run, fs0, processed >>

\* deeid.py:92-94: the T1w files of the subject, from the index built at line 65
ListT1w ==
    /\ pc = "list_t1w"
    /\ list_t1w' = LayoutGetT1w(layout, subject_label)
    /\ ti' = 1
    /\ pc' = "t1w"
    /\ UNCHANGED << dt2, exit_status, args, fs, layout, subjects_to_analyze, si, brainmask_t1,
                    defaced_t1, brainmask_t2, err, run, fs0, first, processed, trace >>

\* deeid.py:95: the next T1w file, or back to the subject loop
NextT1w ==
    /\ pc = "t1w"
    /\ IF ti > Len(list_t1w)
       THEN si' = si + 1 /\ pc' = "subject"
       ELSE pc' = "copy_t1" /\ UNCHANGED si
    /\ UNCHANGED << dt2, exit_status, args, fs, layout, subjects_to_analyze, list_t1w, ti,
                    brainmask_t1, defaced_t1, brainmask_t2, err, run, fs0, first,
                    processed, trace >>

\* copy_no_deid(bids_dir, file) of utils.py:25-34 for an indexed file
CopyNoDeid(file, next) ==
    \/ /\ Raise(Error("BIDSLayoutError", "sourcedata/bidsonym"))
       /\ UNCHANGED << fs, first, trace >>
    \/ /\ ~Exists(fs, file)
       /\ Raise(Error("FileNotFoundError", "shutil.move"))
       /\ UNCHANGED << fs, first, trace >>
    \/ /\ Exists(fs, file)
       /\ LET st == Relocate(St(fs, first, trace), file, NodeidPath(file))
          IN fs' = st.fs /\ first' = st.first /\ trace' = st.trace
       /\ pc' = next
       /\ UNCHANGED err

\* deeid.py:97-99
CopyT1 ==
    /\ pc = "copy_t1"
    /\ CopyNoDeid(T1_file, "brainmask_t1")
    /\ UNCHANGED << dt2, exit_status, args, layout, subjects_to_analyze, si, list_t1w, ti,
                    brainmask_t1, defaced_t1, brainmask_t2, run, fs0, processed >>

\* deeid.py:101-114
BrainmaskT1 ==
    /\ pc = "brainmask_t1"
    /\ \E o \in CreateBrainmask(fs, trace, args, source_t1w) :
          /\ Take(o, "deface_t1")
          /\ brainmask_t1' = IF IsBound(o.out) THEN o.out ELSE brainmask_t1
    /\ UNCHANGED << dt2, exit_status, args, layout, subjects_to_analyze, si, list_t1w, ti,
                    defaced_t1, brainmask_t2, run, fs0, first, processed >>

\* deeid.py:116-127
DefaceT1 ==
    /\ pc = "deface_t1"
    /\ \E o \in DefaceT1Outcomes(fs, trace, args, source_t1w, T1_file) :
          /\ Take(o, "report_t1")
          /\ defaced_t1' = IF IsBound(o.out) THEN o.out ELSE defaced_t1
    /\ UNCHANGED << dt2, exit_status, args, layout, subjects_to_analyze, si, list_t1w, ti,
                    brainmask_t1, brainmask_t2, run, fs0, first, processed >>

\* deeid.py:129-131
ReportT1 ==
    /\ pc = "report_t1"
    /\ \E o \in Report(fs, trace, brainmask_t1, defaced_t1) : Take(o, "t2w")
    /\ UNCHANGED << dt2, exit_status, args, layout, subjects_to_analyze, si, list_t1w, ti,
                    brainmask_t1, defaced_t1, brainmask_t2, run, fs0, first,
                    processed >>

\* mutant: the T2w branch entered without looking at deface_t2w
CheckT2_IgnoresFlag ==
    /\ pc = "t2w"
    /\ IF ~Exists(fs, T2_file)
       THEN /\ trace' = Append(trace, Warn(T2_file))
            /\ ti' = ti + 1
            /\ pc' = "t1w"
       ELSE pc' = "copy_t2" /\ UNCHANGED << ti, trace >>
    /\ UNCHANGED << dt2, exit_status, args, fs, layout, subjects_to_analyze, si, list_t1w,
                    brainmask_t1, defaced_t1, brainmask_t2, err, run, fs0, first,
                    processed >>

\* mutant: a missing T2w file ends the run
CheckT2_RaisesOnMissing ==
    /\ pc = "t2w"
    /\ IF ~args.deface_t2w
       THEN ti' = ti + 1 /\ pc' = "t1w" /\ UNCHANGED err
       ELSE IF ~Exists(fs, T2_file)
            THEN Raise(Error("FileNotFoundError", "T2w")) /\ UNCHANGED ti
            ELSE pc' = "copy_t2" /\ UNCHANGED << ti, err >>
    /\ UNCHANGED << dt2, exit_status, args, fs, layout, subjects_to_analyze, si, list_t1w,
                    brainmask_t1, defaced_t1, brainmask_t2, run, fs0, first,
                    processed, trace >>

\* deeid.py:133-145: is there a T2w file to deface for this T1w file
CheckT2 ==
    /\ pc = "t2w"
    /\ IF ~args.deface_t2w
       THEN ti' = ti + 1 /\ pc' = "t1w" /\ UNCHANGED trace
       ELSE IF ~Exists(fs, T2_file)
            THEN /\ trace' = Append(trace, Warn(T2_file))
                 /\ ti' = ti + 1
                 /\ pc' = "t1w"
            ELSE pc' = "copy_t2" /\ UNCHANGED << ti, trace >>
    /\ UNCHANGED << dt2, exit_status, args, fs, layout, subjects_to_analyze, si, list_t1w,
                    brainmask_t1, defaced_t1, brainmask_t2, err, run, fs0, first,
                    processed >>

\* deeid.py:146-147: layout.get_file returns None for a file the index lacks
CopyT2 ==
    /\ pc = "copy_t2"
    /\ IF T2_file \in layout
       THEN CopyNoDeid(T2_file, "brainmask_t2")
       ELSE /\ \/ Raise(Error("BIDSLayoutError", "sourcedata/bidsonym"))
               \/ Raise(Error("AttributeError", "NoneType has no attribute path"))
            /\ UNCHANGED << fs, first, trace >>
    /\ UNCHANGED << dt2, exit_status, args, layout, subjects_to_analyze, si, list_t1w, ti,
                    brainmask_t1, defaced_t1, brainmask_t2, run, fs0, processed >>

\* deeid.py:149-161
BrainmaskT2 ==
    /\ pc = "brainmask_t2"
    /\ \E o \in CreateBrainmask(fs, trace, args, source_t2w) :
          /\ Take(o, "deface_t2")
          /\ brainmask_t2' = IF IsBound(o.out) THEN o.out ELSE brainmask_t2
    /\ UNCHANGED << dt2, exit_status, args, layout, subjects_to_analyze, si, list_t1w, ti,
                    brainmask_t1, defaced_t1, run, fs0, first, processed >>

\* deeid.py:163-166
DefaceT2 ==
    /\ pc = "deface_t2"
    /\ \E o \in RunT2wDeface(fs, trace, source_t2w, defaced_t1, T2_file) :
          Take(o, "report_t2")
    /\ UNCHANGED << dt2, exit_status, args, layout, subjects_to_analyze, si, list_t1w, ti,
                    brainmask_t1, defaced_t1, brainmask_t2, run, fs0, first,
                    processed >>

\* deeid.py:167-168, and on to the next T1w file
ReportT2 ==
    /\ pc = "report_t2"
    /\ \E o \in Report(fs, trace, brainmask_t2, T2_file) : Take(o, "t1w")
    /\ ti' = IF pc' = "t1w" THEN ti + 1 ELSE ti
    /\ UNCHANGED << dt2, exit_status, args, layout, subjects_to_analyze, si, list_t1w,
                    brainmask_t1, defaced_t1, brainmask_t2, run, fs0, first,
                    processed >>

Pipeline ==
    \/ Parse \/ Exit \/ Validate \/ BuildLayout \/ NextSubject \/ DelMetaData \/ ListT1w
    \/ NextT1w \/ CopyT1 \/ BrainmaskT1 \/ DefaceT1 \/ ReportT1 \/ CheckT2
    \/ CopyT2 \/ BrainmaskT2 \/ DefaceT2 \/ ReportT2

\* one call of deeid() on the dataset
Next == StartRun(CommandLines, 1) \/ Pipeline

Spec == Init /\ [][Next]_vars

\* up to MaxRuns calls of deeid() on the same dataset
NextRerun == StartRun(RerunArgs, MaxRuns) \/ Pipeline

SpecRerun == Init /\ [][NextRerun]_vars

(* ------------------------------------- utils.deface_t2w, call by call ---- *)

InitDefaceT2w ==
    /\ RunIdle
    /\ \E image \in T2wImages, warped_mask \in WarpedMasks :
          dt2 = Call("load", image, warped_mask, NoArray, NoNifti, "None")

pipeline_vars == << pc, args, fs, layout, subjects_to_analyze, si, list_t1w, ti,
                   brainmask_t1, defaced_t1, brainmask_t2, err, exit_status, run,
                   fs0, first, processed, trace >>

\* utils.py:404-406: both files are loaded and the mask is binarized
DefaceT2wLoad ==
    /\ dt2.pc = "load"
    /\ dt2' = [dt2 EXCEPT !.pc = "try",
                          !.warped_mask_img = Nifti(MathImgGreaterZero(dt2.warped_mask.array),
                                                    dt2.warped_mask.geometry)]
    /\ UNCHANGED pipeline_vars

\* utils.py:407-409: the product, or the ValueError of shapes that do not broadcast
DefaceT2wTry ==
    /\ dt2.pc = "try"
    /\ LET infile == Squeeze(dt2.image.array)
           mask == dt2.warped_mask_img.array
       IN IF Broadcastable(infile, mask)
          THEN dt2' = [dt2 EXCEPT !.pc = "save", !.outdata = Multiply(infile, mask)]
          ELSE dt2' = [dt2 EXCEPT !.pc = "except"]
    /\ UNCHANGED pipeline_vars

\* utils.py:410-412: the mask is stacked, then infile_img.fget_data() is looked
\* up: a Nifti1Image has get_fdata() and no fget_data(), an AttributeError
DefaceT2wExcept ==
    /\ dt2.pc = "except"
    /\ LET tmpdata == Stack(dt2.warped_mask_img.array,
                            dt2.image.array.shape[Len(dt2.image.array.shape)])
       IN dt2' = [dt2 EXCEPT !.pc = "raised", !.err = "AttributeError"]
    /\ UNCHANGED pipeline_vars

\* utils.py:414-416: the product with the affine and header of the image
DefaceT2wSave ==
    /\ dt2.pc = "save"
    /\ dt2' = [dt2 EXCEPT !.pc = "written",
                          !.outfile = Nifti(dt2.outdata, dt2.image.geometry)]
    /\ UNCHANGED pipeline_vars

NextDefaceT2w == DefaceT2wLoad \/ DefaceT2wTry \/ DefaceT2wExcept \/ DefaceT2wSave

SpecDefaceT2w == InitDefaceT2w /\ [][NextDefaceT2w]_vars

(* ------------------------------------------------------------ the claims *)

\* the anatomical images of a file system, at their canonical paths
CanonicalImages(f) == {p \in DOMAIN f : p.root = BidsRoot /\ f[p].type = "image"}

\* the subjects of the dataset as it was when the call started
DatasetSubjects == {s \in Labels : SubjectHasFile(Index(fs0), s)}

Moves == {i \in 1..Len(trace) : trace[i].ev = "move"}

ToolCalls == {i \in 1..Len(trace) : trace[i].ev = "tool"}

Untouched == fs = fs0 /\ Moves = {} /\ ToolCalls = {}

\* C1: in a run over a not-yet-processed dataset, whenever the canonical path
\* of a T1w or T2w image holds content that differs from the original, the
\* quarantine path of that image holds the original bytes.
C1_OriginalQuarantinedBeforeOverwrite ==
    run = 1 =>
        \A p \in CanonicalImages(InitFs) :
            (Exists(fs, p) /\ fs[p] # InitFs[p]) =>
                (Exists(fs, NodeidPath(p)) /\ fs[NodeidPath(p)] = InitFs[p])

\* C2: after any sequence of runs and redactions, every quarantine path still
\* holds the content that was first placed there.
C2_QuarantineKeepsFirstContent ==
    \A q \in DOMAIN first : Exists(fs, q) /\ fs[q] = first[q]

\* C3: no relocation ever lands on a quarantine path at which a file already
\* exists: such a relocation raises and moves nothing.
C3_RelocationNeverReplaces ==
    \A i \in Moves : ~trace[i].replaced

\* C4: when an external step fails, every anatomical image that existed before
\* the run still has an image at its canonical path.
C4_NoCanonicalPathEmptiedOnFailure ==
    (pc = "failed" /\ err.type = "ExternalToolFailure") =>
        \A p \in CanonicalImages(fs0) : Exists(fs, p)

\* C5: validation errors fail fast: a run that ends with a validation error,
\* and any run whose options deeid() rejects, has moved, created or modified no
\* file and invoked no external tool.
C5_ValidationFailsFast ==
    /\ (pc = "failed" /\ err.type \in {"ValueError", "Exception"}) => Untouched
    /\ ( /\ pc # "idle"
         /\ ~args.version
         /\ \/ args.brainextraction = "bet" /\ args.bet_frac = Absent
            \/ args.brainextraction = None
            \/ args.analysis_level = "participant" /\ args.participant_label = Absent
            \/ args.analysis_level = "group" /\ args.participant_label # Absent )
       => (Untouched /\ pc \in {"parse", "validate", "failed"})

C5_Witness ==
    /\ pc = "failed"
    /\ err = Error("Exception", "brainextraction required")
    /\ Untouched

\* C6: once validation is over, participant mode without labels and group mode
\* with labels have raised, and no other combination has raised either of the
\* two mode errors.
C6_ModeAndLabelsChecked ==
    (pc \notin {"idle", "parse", "validate"} /\ ParserAccepts(args)) =>
        LET noLabel == args.analysis_level = "participant" /\ args.participant_label = Absent
            groupLabel == args.analysis_level = "group" /\ args.participant_label # Absent
            earlier == \/ args.brainextraction = "bet" /\ args.bet_frac = Absent
                       \/ args.brainextraction = None
        IN /\ (noLabel \/ groupLabel) =>
                (pc = "failed" /\ err.type \in {"ValueError", "Exception"})
           /\ (noLabel /\ ~earlier) => err.msg = "No participant label indicated"
           /\ (groupLabel /\ ~earlier) =>
                err.msg = "Cannot set participant_label for group level analysis"
           /\ err.msg = "No participant label indicated" => noLabel
           /\ err.msg = "Cannot set participant_label for group level analysis" => groupLabel

C6_Witness ==
    /\ pc = "failed"
    /\ args.analysis_level = "group"
    /\ args.participant_label # Absent
    /\ err.msg = "Cannot set participant_label for group level analysis"

\* C7: a run that requests a participant label the dataset lacks has raised by
\* the time the subjects are resolved, before any subject is processed, and the
\* error names every unknown label.
C7_UnknownParticipantRejected ==
    LET unknown == Range(args.participant_label) \ DatasetSubjects IN
    (pc \notin {"idle", "parse", "validate", "layout"} /\ unknown # {}) =>
        /\ pc = "failed"
        /\ processed = << >>
        /\ err.msg = "participant(s) not present in the BIDS dataset" =>
               unknown \subseteq Range(err.labels)

\* C8: a completed run has entered the subject pipeline for exactly the
\* requested labels, each once (participant mode), or for exactly the subjects
\* of the index, each once and in index order (group mode).
C8_SubjectsProcessedOnce ==
    pc = "done" =>
        IF args.analysis_level = "participant"
        THEN /\ Range(processed) = Range(args.participant_label)
             /\ Len(processed) = Cardinality(Range(args.participant_label))
        ELSE processed = LayoutSubjectIds(Index(fs0))

\* C9: a run without a de-identification method is rejected by validation: it
\* relocates no file and invokes no external tool.
C9_NoDeidRejected ==
    (pc # "idle" /\ args.deid = None) =>
        (Moves = {} /\ ToolCalls = {} /\ pc \in {"parse", "validate", "failed"})

\* C10: brain extraction "bet" without bet_frac raises the Frac-value error
\* before any subject is processed.
C10_BetWithoutFracRejected ==
    ( /\ pc \notin {"idle", "parse", "validate"}
      /\ args.brainextraction = "bet"
      /\ args.bet_frac = Absent )
    => ( /\ pc = "failed"
         /\ err = Error("ValueError", "provide a Frac value")
         /\ processed = << >> )

C10_Witness ==
    /\ pc = "failed"
    /\ args.brainextraction = "bet"
    /\ args.bet_frac = Absent
    /\ err = Error("ValueError", "provide a Frac value")
    /\ processed = << >>

\* a threshold, in tenths, inside the interval (0,1]
FracInRange(tenths) == 0 < tenths /\ tenths <= 10

\* C11: with brain extraction "bet" and a supplied threshold outside (0,1], the
\* run is rejected before the BET process is invoked: BET is never run.
C11_BetFracOutOfRangeRejected ==
    ( /\ pc # "idle"
      /\ args.brainextraction = "bet"
      /\ args.bet_frac # Absent
      /\ ~FracInRange(Float(args.bet_frac[1])) )
    => \A i \in ToolCalls : trace[i].tool # "bet"

\* C12: a run whose --brainextraction value is absent or is not one of bet and
\* nobrainer is rejected, by the parser or by deeid(), before any file is
\* relocated, written or handed to an external tool.
C12_BrainextractionSupported ==
    ( /\ pc # "idle"
      /\ ~args.version
      /\ args.brainextraction \notin {"bet", "nobrainer"} )
    => ( /\ Untouched
         /\ processed = << >>
         /\ pc \in {"parse", "validate", "failed"}
         /\ pc = "failed" => err.type \in {"SystemExit", "ValueError", "Exception"} )

C12_Witness ==
    /\ pc = "failed"
    /\ args.brainextraction = "fsl"
    /\ ParserAccepts([args EXCEPT !.brainextraction = "nobrainer"])
    /\ ValidationError([args EXCEPT !.brainextraction = "nobrainer"]) = NoError
    /\ err.type = "SystemExit"
    /\ Untouched

\* the events of the trace that handle a T2w file
T2Events ==
    {i \in 1..Len(trace) :
        \/ trace[i].ev = "move" /\ trace[i].src.base.stem[1] = "T2w"
        \/ trace[i].ev = "tool" /\ trace[i].input.base.stem[1] = "T2w"}

\* the file an event handles
EventFile(event) == IF event.ev = "move" THEN event.src ELSE event.input

\* C13: a T2w file is relocated, brain-extracted or defaced only if deface_t2w
\* was requested and the file existed at the path built from the entities of a
\* T1w file that the run has relocated; otherwise every T2w file stays as it
\* was, and no T2w file is created.
C13_T2wOnlyWhenRequestedAndPresent ==
    /\ \A i \in T2Events :
          LET t2 == BuildPath(BidsRoot, EntitiesOf(EventFile(trace[i]))) IN
          /\ args.deface_t2w
          /\ Exists(fs0, t2)
          /\ \E j \in Moves : j < i /\ T2Path(trace[j].src) = t2
    /\ ~args.deface_t2w =>
          \A p \in CanonicalImages(fs0) :
              p.base.stem = << "T2w" >> => (Exists(fs, p) /\ fs[p] = fs0[p])
    /\ \A p \in DOMAIN fs :
          (fs[p].type = "image" /\ p.base.stem = << "T2w" >>) =>
              Exists(fs0, BuildPath(BidsRoot, EntitiesOf(p)))

C13_Witness ==
    /\ args.deface_t2w
    /\ \E i \in T2Events : trace[i].ev = "move"
    /\ \E i \in 1..Len(trace) : trace[i].ev = "warn"
    /\ \E p \in CanonicalImages(fs0) :
          p.base.stem = << "T2w" >> /\ Exists(fs, p) /\ fs[p] = Defaced(fs0[p])

\* C14: when deface_t2w is requested and the T2w file of the current T1w file
\* does not exist, the step that looks for it logs a warning, raises nothing,
\* changes no file and goes on with the next T1w file; a warning is logged by
\* that step only.
C14_MissingT2wIsSkipped ==
    [][ /\ (pc = "t2w" /\ args.deface_t2w /\ ~Exists(fs, T2_file)) =>
              /\ pc' = "t1w"
              /\ ti' = ti + 1
              /\ si' = si
              /\ err' = NoError
              /\ fs' = fs
              /\ trace' = Append(trace, Warn(T2_file))
        /\ (Len(trace') > Len(trace) /\ trace'[Len(trace')].ev = "warn") =>
              (pc = "t2w" /\ args.deface_t2w /\ ~Exists(fs, T2_file)) ]_vars

\* a run that skipped a T2w file and went on to its end
C14_Witness ==
    /\ pc = "done"
    /\ err = NoError
    /\ \E i \in 1..Len(trace) :
          /\ trace[i].ev = "warn"
          /\ \E j \in ToolCalls : j > i /\ trace[j].input.base.ses # trace[i].what.base.ses

\* the calls of external tools that failed
FailedCalls == {i \in ToolCalls : ~trace[i].ok}

\* brain extraction, the five defacing methods and the T2w defacing
ExtractionAndDefacing == {"bet", "nobrainer", "t2w_deface"} \cup Deids

\* the T1w images of the dataset that come after the file the run is at: the
\* later files of the current subject and the files of the later subjects
LaterT1w ==
    {p \in CanonicalImages(fs0) :
        /\ p.base.stem = << "T1w" >>
        /\ \/ \E k \in (si + 1)..Len(subjects_to_analyze) : subjects_to_analyze[k] = p.base.sub
           \/ /\ si <= Len(subjects_to_analyze)
              /\ p.base.sub = subject_label
              /\ \E k \in (ti + 1)..Len(list_t1w) : list_t1w[k] = p}

\* C15: a failed brain-extraction, defacing or T2w-defacing call is the last
\* event of the run: the run has ended with that failure as its exception, and
\* no tool call or relocation follows it.
C15_ToolFailureEndsRun ==
    \A i \in FailedCalls :
        trace[i].tool \in ExtractionAndDefacing =>
            /\ i = Len(trace)
            /\ pc = "failed"
            /\ err = ExternalToolFailure(trace[i].tool)

\* a defacing failure on the first subject of a group run, files still to do
C15_Witness ==
    /\ pc = "failed"
    /\ args.analysis_level = "group"
    /\ Len(trace) > 1
    /\ trace[Len(trace)].ev = "tool"
    /\ trace[Len(trace)].tool \in Deids
    /\ ~trace[Len(trace)].ok
    /\ si < Len(subjects_to_analyze)

\* C16 (as claimed): in a group run that has ended after an external tool
\* failed on a file of one subject, every other subject with a T1w file has
\* been processed: each of its T1w files is defaced and quarantined.
C16_FailureIsolated ==
    (exit_status # -1 /\ args.analysis_level = "group" /\ FailedCalls # {}) =>
        \A p \in CanonicalImages(fs0) :
            (p.base.stem = << "T1w" >> /\ p.base.sub # subject_label) =>
                /\ p.base.sub \in Range(processed)
                /\ Exists(fs, NodeidPath(p))
                /\ Exists(fs, p) /\ fs[p] # fs0[p]

\* C16 (amended): in a group run, an external-tool failure on one file ends
\* the run there: the T1w files after it, of the same and of every later
\* subject, are left as they were, with nothing in quarantine, and the later
\* subjects are never entered.
C16_FailureAbortsRun ==
    (args.analysis_level = "group" /\ FailedCalls # {}) =>
        /\ pc = "failed"
        /\ err.type = "ExternalToolFailure"
        /\ processed = SubSeq(subjects_to_analyze, 1, si)
        /\ \A p \in LaterT1w :
              /\ Exists(fs, p) /\ fs[p] = fs0[p]
              /\ ~Exists(fs, NodeidPath(p))
              /\ \A i \in 1..Len(trace) :
                    trace[i].ev # "warn" => EventFile(trace[i]).base.sub # p.base.sub
                                           \/ EventFile(trace[i]).base.ses # p.base.ses

\* the process has ended on a tool failure for sub-01; sub-02 was never entered
C16_Witness ==
    /\ exit_status = 1
    /\ args.analysis_level = "group"
    /\ FailedCalls # {}
    /\ subject_label = "01"
    /\ LaterT1w # {}
    /\ "02" \notin Range(processed)

\* the brain masks made from an image
MasksOf(f, image) == {q \in DOMAIN f : f[q].type = "brainmask" /\ f[q].from = image}

\* the T1w images of a subject in the dataset as it was when the call started
T1wOf(subject) ==
    {p \in CanonicalImages(fs0) : p.base.stem = << "T1w" >> /\ p.base.sub = subject}

\* C17: after a successful run on the unprocessed dataset, every T1w file of
\* every selected subject has the once-defaced image at its canonical path,
\* exactly one brain mask, made from the original, and the original content at
\* its quarantine path.
C17_OneDefacedOneMaskOriginalKept ==
    (pc = "done" /\ run = 1) =>
        \A k \in 1..Len(subjects_to_analyze) : \A p \in T1wOf(subjects_to_analyze[k]) :
            /\ Exists(fs, p) /\ fs[p] = Defaced(InitFs[p])
            /\ Cardinality({q \in DOMAIN fs : fs[q].type = "brainmask"
                                              /\ q.base.sub = p.base.sub
                                              /\ q.base.ses = p.base.ses
                                              /\ q.base.stem[1] = "T1w"}) = 1
            /\ Cardinality(MasksOf(fs, InitFs[p])) = 1
            /\ Exists(fs, NodeidPath(p)) /\ fs[NodeidPath(p)] = InitFs[p]

\* the sidecars of a subject at their canonical paths
SidecarsOf(f, subject) ==
    {p \in DOMAIN f : p.root = BidsRoot /\ f[p].type = "json" /\ p.base.sub = subject}

HasListedField(meta, fields) == \E k \in DOMAIN meta : k \in Range(fields)

C19_SidecarsWithoutListedFieldUntouched ==
    /\ \A p \in DOMAIN fs0 :
          ( /\ p.root = BidsRoot
            /\ fs0[p].type = "json"
            /\ ~HasListedField(fs0[p].meta, args.del_meta) ) =>
              /\ Exists(fs, p) /\ fs[p] = fs0[p]
              /\ Exists(fs, NodeidPath(p)) => Exists(fs0, NodeidPath(p))
              /\ \A i \in Moves : trace[i].src # p
    /\ \A i \in Moves :
          trace[i].src.base.ext = "json" =>
              HasListedField(fs0[trace[i].src].meta, args.del_meta)

\* a group run with --del_meta that redacted sub-01 and went through sub-02
C19_Witness ==
    LET p == BuildPath(BidsRoot, Entities("02", "1", "T1w", "json")) IN
    /\ args.del_meta = << "InstitutionName" >>
    /\ processed = << "01", "02" >>
    /\ pc = "list_t1w"
    /\ \E i \in Moves : trace[i].src.base.ext = "json"
    /\ fs[p] = InitFs[p]
    /\ ~Exists(fs, NodeidPath(p))

\* C20: the process exits with 0 when the run completed and when the version
\* was asked for, which touches no file; it exits with a non-zero status when
\* the parser or the validation rejected the options or an external tool
\* failed; a status of 0 is never that of a run that raised.
C20_ExitStatus ==
    exit_status # -1 =>
        /\ pc = "done" => exit_status = 0
        /\ args.version => (exit_status = 0 /\ pc = "version" /\ Untouched /\ processed = << >>)
        /\ (err.type \in {"SystemExit", "ValueError", "Exception"} \/ FailedCalls # {}) =>
              exit_status # 0
        /\ exit_status = 0 => (err = NoError /\ FailedCalls = {})

\* the process has ended on a failed defacing call, after a relocation
C20_Witness ==
    /\ exit_status # -1
    /\ exit_status # 0
    /\ err.type = "ExternalToolFailure"
    /\ Moves # {}
    /\ \E i \in FailedCalls : trace[i].tool \in Deids

IsExtraction(event) == event.ev = "tool" /\ event.tool \in {"bet", "nobrainer"}

IsDefacing(event) == event.ev = "tool" /\ event.tool \in Deids \cup {"t2w_deface"}

\* two paths of the same image: same subject, session and suffix
SameImage(p, q) ==
    p.base.sub = q.base.sub /\ p.base.ses = q.base.ses /\ p.base.stem[1] = q.base.stem[1]

\* C21 (as claimed): every brain-extraction call reads the image at its
\* canonical path, before the image is relocated.
C21_ExtractBeforeRelocate ==
    \A i \in ToolCalls :
        IsExtraction(trace[i]) =>
            /\ trace[i].input.root = BidsRoot
            /\ \A j \in Moves : SameImage(trace[j].src, trace[i].input) => i < j

\* C21 (amended): the steps of a file follow each other in the order
\* relocation, brain extraction, defacing, report: a brain-extraction call
\* reads the quarantined file and comes right after the relocation of that
\* file (or after the first BET pass), a defacing call comes right after the
\* successful extraction of its input, and a report call right after the
\* successful defacing of its image (or the overlay before it).
C21_RelocateExtractDefaceReport ==
    \A i \in ToolCalls :
        LET event == trace[i]
            before == trace[i - 1]
        IN /\ i > 1
           /\ IsExtraction(event) =>
                /\ event.input.root = NodeidRoot
                /\ \/ before.ev = "move" /\ before.dst = event.input
                   \/ IsExtraction(before) /\ before.ok /\ before.input = event.input
           /\ IsDefacing(event) =>
                /\ event.input.root = NodeidRoot
                /\ IsExtraction(before) /\ before.ok /\ before.input = event.input
           /\ event.tool = "plot_overlay" =>
                /\ event.input.root = BidsRoot
                /\ IsDefacing(before) /\ before.ok /\ SameImage(before.input, event.input)
           /\ event.tool = "nifti_to_gif" =>
                /\ before.ev = "tool" /\ before.tool = "plot_overlay" /\ before.ok
                /\ before.input = event.input

\* a T1w file and its T2w file both went through the four steps
C21_Witness ==
    /\ pc = "t1w"
    /\ Len(trace) > 8
    /\ trace[Len(trace)].ev = "tool"
    /\ trace[Len(trace)].tool = "nifti_to_gif"
    /\ trace[Len(trace)].ok
    /\ trace[Len(trace)].input.base.stem = << "T2w" >>

\* C22: whenever a defacing tool (one of the five methods, or the T2w
\* defacing) is called for a file, the brain extraction of that file has
\* just completed successfully and its brain mask, made from the file the
\* tool is given, exists.
C22_ExtractionBeforeDefacing ==
    [][ (Len(trace') > Len(trace) /\ IsDefacing(trace'[Len(trace) + 1])) =>
          LET input == trace'[Len(trace) + 1].input IN
          /\ Len(trace) > 0
          /\ IsExtraction(trace[Len(trace)])
          /\ trace[Len(trace)].ok
          /\ trace[Len(trace)].input = input
          /\ Exists(fs, BrainmaskPath(input))
          /\ fs[BrainmaskPath(input)].type = "brainmask"
          /\ fs[BrainmaskPath(input)].from = fs[input] ]_vars

\* a T2w file defaced after its extraction by BET
C22_Witness ==
    /\ args.brainextraction = "bet"
    /\ Len(trace) > 2
    /\ trace[Len(trace)].ev = "tool"
    /\ trace[Len(trace)].tool = "t2w_deface"
    /\ trace[Len(trace)].ok
    /\ Exists(fs, BrainmaskPath(source_t2w))

\* C23: whenever the T2w defacing is called, the T1w file of the same subject
\* and session has been defaced successfully in this iteration (nothing was
\* relocated from its canonical path since), and the mask handed over is the
\* defaced image at the canonical T1w path, never the quarantined file.
C23_T2wDefacedAfterT1w ==
    [][ ( /\ Len(trace') > Len(trace)
          /\ trace'[Len(trace) + 1].ev = "tool"
          /\ trace'[Len(trace) + 1].tool = "t2w_deface" ) =>
          /\ pc = "deface_t2"
          /\ trace'[Len(trace) + 1].input = source_t2w
          /\ T2_file = T2Path(T1_file)
          /\ IsBound(defaced_t1)
          /\ defaced_t1 = T1_file
          /\ defaced_t1 # source_t1w
          /\ Exists(fs, defaced_t1)
          /\ Exists(fs, source_t1w)
          /\ fs[defaced_t1] = Defaced(fs[source_t1w])
          /\ \E j \in ToolCalls :
                /\ trace[j].tool \in Deids /\ trace[j].ok /\ trace[j].input = source_t1w
                /\ \A k \in (j + 1)..Len(trace) :
                      /\ trace[k].ev = "move" => trace[k].src # T1_file
                      /\ trace[k].ev = "tool" => trace[k].tool \notin Deids ]_vars

\* the T2w defacing of sub-02/ses-2 has been called with mridefacer's output
C23_Witness ==
    /\ args.deid = "mridefacer"
    /\ pc = "report_t2"
    /\ subject_label = "02"
    /\ defaced_t1 = BuildPath(BidsRoot, Entities("02", "2", "T1w", "nii.gz"))
    /\ trace[Len(trace)].tool = "t2w_deface"
    /\ trace[Len(trace)].ok

C25_BrainmasksInQuarantine ==
    \A p \in DOMAIN fs :
        (fs[p].type = "brainmask" \/ "brainmask" \in Range(p.base.stem)) =>
            /\ p.root = NodeidRoot
            /\ p.root # BidsRoot

\* the masks of a T1w and of a T2w file, by BET
C25_Witness ==
    /\ args.brainextraction = "bet"
    /\ \E p \in DOMAIN fs : fs[p].type = "brainmask" /\ p.base.stem[1] = "T1w"
    /\ \E p \in DOMAIN fs : fs[p].type = "brainmask" /\ p.base.stem[1] = "T2w"

\* the image and the mask of the call have the same 3-D shape
SameShape == dt2.image.array.shape = dt2.warped_mask.array.shape

\* the image of the call is a series of more than one volume
IsSeries == Len(dt2.image.array.shape) = 2 /\ dt2.image.array.shape[2] > 1

C27_SeriesFallback ==
    (dt2.pc # "none" /\ IsSeries) =>
        /\ dt2.pc # "raised"
        /\ dt2.err = "None"
        /\ dt2.pc = "written" =>
              /\ dt2.outfile.array.shape = dt2.image.array.shape
              /\ \A idx \in DOMAIN dt2.image.array.data :
                    dt2.outfile.array.data[idx] =
                        IF dt2.warped_mask.array.data[<< idx[1] >>] > 0
                        THEN dt2.image.array.data[idx]
                        ELSE 0

====
